---- MODULE Spec2Model ----
(***************************************************************************)
(* Execution log aggregator of the NeuroGames repository                   *)
(* (src/src/logger.py, src/log.py).                                        *)
(*                                                                         *)
(* A file is the sequence of its characters.  A character is a one-letter  *)
(* string ("#", "\t", "\n", " ", "-", a digit) or an atom: a longer string *)
(* such as "D1" or "a.py" that stands for a run of ordinary characters     *)
(* (no whitespace, no tab, no digit, no sign, no '#').  readlines, strip,  *)
(* split and int are computed on these sequences as Python computes them.  *)
(***************************************************************************)
EXTENDS Integers, Sequences, FiniteSets, TLC

\* ------------------------------------------------------------------ bounds
MaxLines == 1       \* lines present in the log files before the first call
MaxScanLines == 2   \* the same, for the specification of the scans alone
MaxCalls == 2       \* log_execution calls in one behaviour
MaxOld == 1         \* entries the primary file holds before two concurrent calls

\* --------------------------------------------------------------- constants
LOG_FILE == "logs/program_log.txt"

\* the list with the current location alone
LEGACY_LOG_FILES_primaryOnly == << "logs/program_log.txt" >>

LEGACY_LOG_FILES ==
    << "program_log.txt", "sub/program_log.txt", "logs/program_log.txt" >>

Files == { "program_log.txt", "sub/program_log.txt", "logs/program_log.txt" }

\* -------------------------------------------------------- string functions
Whitespace == { " ", "\t", "\n" }

DigitChars == << "0", "1", "2", "3", "4", "5", "6", "7", "8", "9" >>

IsDigit(c) == \E i \in 1..10 : DigitChars[i] = c

DigitVal(c) == (CHOOSE i \in 1..10 : DigitChars[i] = c) - 1

Max(a, b) == IF a >= b THEN a ELSE b

\* index of the first occurrence of c in s from position i on, 0 when none
RECURSIVE IndexFrom(_, _, _)
IndexFrom(s, c, i) ==
    IF i > Len(s) THEN 0
    ELSE IF s[i] = c THEN i
    ELSE IndexFrom(s, c, i + 1)

IndexOf(s, c) == IndexFrom(s, c, 1)

RECURSIVE Concat(_)
Concat(ss) == IF ss = << >> THEN << >> ELSE Head(ss) \o Concat(Tail(ss))

\* f.readlines(): the lines of the text, each with its terminator; only the
\* last line can lack one
RECURSIVE readlines(_)
readlines(s) ==
    IF s = << >> THEN << >>
    ELSE LET i == IndexOf(s, "\n")
         IN  IF i = 0 THEN << s >>
             ELSE << SubSeq(s, 1, i) >> \o readlines(SubSeq(s, i + 1, Len(s)))

RECURSIVE lstrip(_)
lstrip(s) ==
    IF s # << >> /\ Head(s) \in Whitespace THEN lstrip(Tail(s)) ELSE s

RECURSIVE rstrip(_)
rstrip(s) ==
    IF s # << >> /\ s[Len(s)] \in Whitespace
    THEN rstrip(SubSeq(s, 1, Len(s) - 1)) ELSE s

\* str.strip()
strip(s) == rstrip(lstrip(s))

\* str.split(sep): always at least one part
RECURSIVE split(_, _)
split(s, sep) ==
    LET i == IndexOf(s, sep)
    IN  IF i = 0 THEN << s >>
        ELSE << SubSeq(s, 1, i - 1) >> \o split(SubSeq(s, i + 1, Len(s)), sep)

startswith(s, c) == s # << >> /\ s[1] = c

\* the digits of int(s): surrounding whitespace and one sign are dropped
IntBody(s) ==
    LET t == strip(s)
    IN  IF t # << >> /\ t[1] \in { "+", "-" } THEN Tail(t) ELSE t

\* int(s) does not raise ValueError
IntOk(s) ==
    LET b == IntBody(s)
    IN  b # << >> /\ \A i \in 1..Len(b) : IsDigit(b[i])

RECURSIVE DigitsVal(_)
DigitsVal(b) ==
    IF b = << >> THEN 0
    ELSE 10 * DigitsVal(SubSeq(b, 1, Len(b) - 1)) + DigitVal(b[Len(b)])

\* int(s), for a string on which it does not raise
IntVal(s) ==
    LET t == strip(s)
    IN  IF startswith(t, "-") THEN 0 - DigitsVal(IntBody(s))
        ELSE DigitsVal(IntBody(s))

\* str(n) as used by the f-string of the log entry
RECURSIVE NatToStr(_)
NatToStr(n) ==
    IF n < 10 THEN << DigitChars[n + 1] >>
    ELSE NatToStr(n \div 10) \o << DigitChars[(n % 10) + 1] >>

IntToStr(n) == IF n < 0 THEN << "-" >> \o NatToStr(0 - n) ELSE NatToStr(n)

\* ------------------------------------------------------------- file system
\* fs[f].st: "missing"    no such file (its directory exists or can be made)
\*           "nodir"      no such file, and it cannot be created
\*           "ok"         readable and writable
\*           "unreadable" exists, open(f, 'r') raises
\*           "readonly"   readable, open(f, 'w') raises
\*           "nospace"    readable, open(f, 'w') empties the file and the
\*                        writes that follow raise
\* fs[f].data: the characters of the file
exists(fs, f) == fs[f].st \notin { "missing", "nodir" }

CanRead(fs, f) == fs[f].st \in { "ok", "readonly", "nospace" }

CanWrite(fs, f) == fs[f].st = "ok"

\* open(f, 'w') does not raise
CanOpenForWrite(fs, f) == fs[f].st \in { "ok", "nospace" }

\* how far the writes of a rewrite can get before one of them raises
write_outcomes(fs) ==
    IF fs[LOG_FILE].st = "nospace" THEN { "nothing", "header" } ELSE { "all" }

NoFile == [ st |-> "missing", data |-> << >> ]

\* ---------------------------------------------------- get_next_call_number
\* a line loop that a ValueError ends
RECURSIVE number_lines_stopAtBadLine(_, _)
number_lines_stopAtBadLine(lines, max_number) ==
    IF lines = << >> THEN max_number
    ELSE LET line == Head(lines)
             parts == split(line, "\t")
         IN  IF strip(line) = << >> \/ startswith(line, "#")
             THEN number_lines_stopAtBadLine(Tail(lines), max_number)
             ELSE IF Len(parts) >= 1 /\ IntOk(parts[1])
                  THEN number_lines_stopAtBadLine(Tail(lines),
                                        Max(max_number, IntVal(parts[1])))
                  ELSE max_number

\* the loop over the lines of one file, max_number being the running maximum
RECURSIVE number_lines(_, _)
number_lines(lines, max_number) ==
    IF lines = << >> THEN max_number
    ELSE LET line == Head(lines)
             parts == split(line, "\t")
         IN  IF strip(line) = << >> \/ startswith(line, "#")
             THEN number_lines(Tail(lines), max_number)
             ELSE IF Len(parts) >= 1 /\ IntOk(parts[1])
                  THEN number_lines(Tail(lines),
                                    Max(max_number, IntVal(parts[1])))
                  ELSE number_lines(Tail(lines), max_number)

\* a location loop without the try/except around open
RECURSIVE number_files_noExcept(_, _, _)
number_files_noExcept(fs, files, max_number) ==
    IF files = << >> THEN [ raised |-> FALSE, value |-> max_number + 1 ]
    ELSE LET log_file == Head(files)
         IN  IF ~ exists(fs, log_file)
             THEN number_files_noExcept(fs, Tail(files), max_number)
             ELSE IF ~ CanRead(fs, log_file)
                  THEN [ raised |-> TRUE, value |-> 0 ]
                  ELSE number_files_noExcept(fs, Tail(files),
                         number_lines(readlines(fs[log_file].data), max_number))

\* the loop over the locations; the result is the returned value, or
\* raised = TRUE when an exception leaves the function
RECURSIVE number_files(_, _, _)
number_files(fs, files, max_number) ==
    IF files = << >> THEN [ raised |-> FALSE, value |-> max_number + 1 ]
    ELSE LET log_file == Head(files)
         IN  IF ~ exists(fs, log_file)
             THEN number_files(fs, Tail(files), max_number)
             ELSE IF ~ CanRead(fs, log_file)
                  THEN number_files(fs, Tail(files), max_number)
                  ELSE number_files(fs, Tail(files),
                         number_lines(readlines(fs[log_file].data), max_number))

get_next_call_number(fs) == number_files(fs, LEGACY_LOG_FILES, 0)

\* ----------------------------------------------------------------- read_log
\* a key that tells copies with different paths apart
entry_key_withPath(e) == << e.number, e.date, e.time, e.filename, e.filepath >>

\* the key that read_log puts into seen_entries
entry_key(e) == << e.number, e.date, e.time, e.filename >>

\* a dictionary without the source name
parse_entry_noName(parts) ==
    [ number   |-> IntVal(parts[1]),
      date     |-> parts[2],
      time     |-> parts[3],
      filename |-> << >>,
      filepath |-> IF Len(parts) > 4 THEN parts[5] ELSE << >> ]

\* the dictionary read_log builds from the parts of a line
parse_entry(parts) ==
    [ number   |-> IntVal(parts[1]),
      date     |-> parts[2],
      time     |-> parts[3],
      filename |-> parts[4],
      filepath |-> IF Len(parts) > 4 THEN parts[5] ELSE << >> ]

\* a line loop that a malformed line ends
RECURSIVE entry_lines_stopAtBadLine(_, _)
entry_lines_stopAtBadLine(lines, acc) ==
    IF lines = << >> THEN acc
    ELSE LET line == Head(lines)
             parts == split(strip(line), "\t")
         IN  IF strip(line) = << >> \/ startswith(line, "#")
             THEN entry_lines_stopAtBadLine(Tail(lines), acc)
             ELSE IF Len(parts) >= 4
                  THEN IF IntOk(parts[1])
                       THEN LET e == parse_entry(parts)
                            IN  IF entry_key(e) \notin acc.seen_entries
                                THEN entry_lines_stopAtBadLine(Tail(lines),
                                       [ all_entries |-> Append(acc.all_entries, e),
                                         seen_entries |-> acc.seen_entries \cup { entry_key(e) } ])
                                ELSE entry_lines_stopAtBadLine(Tail(lines), acc)
                       ELSE acc
                  ELSE acc

\* the loop over the lines of one file; acc holds all_entries, seen_entries
RECURSIVE entry_lines(_, _)
entry_lines(lines, acc) ==
    IF lines = << >> THEN acc
    ELSE LET line == Head(lines)
             parts == split(strip(line), "\t")
         IN  IF strip(line) = << >> \/ startswith(line, "#")
             THEN entry_lines(Tail(lines), acc)
             ELSE IF Len(parts) >= 4
                  THEN IF IntOk(parts[1])
                       THEN LET e == parse_entry(parts)
                            IN  IF entry_key(e) \notin acc.seen_entries
                                THEN entry_lines(Tail(lines),
                                       [ all_entries |-> Append(acc.all_entries, e),
                                         seen_entries |-> acc.seen_entries \cup { entry_key(e) } ])
                                ELSE entry_lines(Tail(lines), acc)
                       ELSE entry_lines(Tail(lines), acc)
                  ELSE entry_lines(Tail(lines), acc)

\* a loop over the locations that starts with the last one
RECURSIVE entry_files_lastFirst(_, _, _)
entry_files_lastFirst(fs, files, acc) ==
    IF files = << >> THEN acc
    ELSE LET log_file == files[Len(files)]
             rest == SubSeq(files, 1, Len(files) - 1)
         IN  IF ~ exists(fs, log_file) \/ ~ CanRead(fs, log_file)
             THEN entry_files_lastFirst(fs, rest, acc)
             ELSE entry_files_lastFirst(fs, rest,
                    entry_lines(readlines(fs[log_file].data), acc))

\* the loop over the locations
RECURSIVE entry_files(_, _, _)
entry_files(fs, files, acc) ==
    IF files = << >> THEN acc
    ELSE LET log_file == Head(files)
         IN  IF ~ exists(fs, log_file)
             THEN entry_files(fs, Tail(files), acc)
             ELSE IF ~ CanRead(fs, log_file)
                  THEN entry_files(fs, Tail(files), acc)
                  ELSE entry_files(fs, Tail(files),
                         entry_lines(readlines(fs[log_file].data), acc))

\* list.sort(key=number, reverse=True): stable, equal numbers keep their order
RECURSIVE insert_desc(_, _)
insert_desc(x, sorted) ==
    IF sorted = << >> THEN << x >>
    ELSE IF Head(sorted).number > x.number
         THEN << Head(sorted) >> \o insert_desc(x, Tail(sorted))
         ELSE << x >> \o sorted

\* the sort left out
sort_reverse_unsorted(entries) == entries

RECURSIVE sort_reverse(_)
sort_reverse(entries) ==
    IF entries = << >> THEN << >>
    ELSE insert_desc(Head(entries), sort_reverse(Tail(entries)))

\* the entries read_log displays, in display order (none: "No log entries")
read_log(fs) ==
    sort_reverse(entry_files(fs, LEGACY_LOG_FILES,
                   [ all_entries |-> << >>, seen_entries |-> { } ]).all_entries)

\* ------------------------------------------------------------ get_log_stats
\* the dictionary get_log_stats builds from the parts of a line
stats_entry(parts) ==
    [ number   |-> IntVal(parts[1]),
      date     |-> parts[2],
      time     |-> parts[3],
      filename |-> parts[4] ]

\* a line loop without seen_entries
RECURSIVE stats_lines_noDedup(_, _)
stats_lines_noDedup(lines, acc) ==
    IF lines = << >> THEN acc
    ELSE LET line == Head(lines)
             parts == split(strip(line), "\t")
         IN  IF strip(line) = << >> \/ startswith(line, "#")
             THEN stats_lines_noDedup(Tail(lines), acc)
             ELSE IF Len(parts) >= 4 /\ IntOk(parts[1])
                  THEN stats_lines_noDedup(Tail(lines),
                         [ all_entries |-> Append(acc.all_entries, stats_entry(parts)),
                           seen_entries |-> acc.seen_entries ])
                  ELSE stats_lines_noDedup(Tail(lines), acc)

\* get_log_stats' own loop over the lines of one file
RECURSIVE stats_lines(_, _)
stats_lines(lines, acc) ==
    IF lines = << >> THEN acc
    ELSE LET line == Head(lines)
             parts == split(strip(line), "\t")
         IN  IF strip(line) = << >> \/ startswith(line, "#")
             THEN stats_lines(Tail(lines), acc)
             ELSE IF Len(parts) >= 4
                  THEN IF IntOk(parts[1])
                       THEN LET e == stats_entry(parts)
                            IN  IF entry_key(e) \notin acc.seen_entries
                                THEN stats_lines(Tail(lines),
                                       [ all_entries |-> Append(acc.all_entries, e),
                                         seen_entries |-> acc.seen_entries \cup { entry_key(e) } ])
                                ELSE stats_lines(Tail(lines), acc)
                       ELSE stats_lines(Tail(lines), acc)
                  ELSE stats_lines(Tail(lines), acc)

\* get_log_stats' loop over LEGACY_LOG_FILES
RECURSIVE stats_files(_, _, _)
stats_files(fs, files, acc) ==
    IF files = << >> THEN acc
    ELSE LET log_file == Head(files)
         IN  IF ~ exists(fs, log_file) THEN stats_files(fs, Tail(files), acc)
             ELSE IF ~ CanRead(fs, log_file) THEN stats_files(fs, Tail(files), acc)
             ELSE stats_files(fs, Tail(files),
                              stats_lines(readlines(fs[log_file].data), acc))

\* the position of program in the dictionary, 0 when it is no key
RECURSIVE key_index(_, _, _)
key_index(counts, program, i) ==
    IF i > Len(counts) THEN 0
    ELSE IF counts[i].program = program THEN i
    ELSE key_index(counts, program, i + 1)

\* a counting loop that puts a new program in front of the others
RECURSIVE count_programs_newFirst(_, _)
count_programs_newFirst(entries, program_counts) ==
    IF entries = << >> THEN program_counts
    ELSE LET program == Head(entries).filename
             i == key_index(program_counts, program, 1)
         IN  count_programs_newFirst(Tail(entries),
               IF i = 0
               THEN << [ program |-> program, count |-> 1 ] >> \o program_counts
               ELSE [ program_counts EXCEPT ![i].count = @ + 1 ])

\* program_counts[program] = program_counts.get(program, 0) + 1 for each entry;
\* the dictionary keeps its keys in the order they were first set
RECURSIVE count_programs(_, _)
count_programs(entries, program_counts) ==
    IF entries = << >> THEN program_counts
    ELSE LET program == Head(entries).filename
             i == key_index(program_counts, program, 1)
         IN  count_programs(Tail(entries),
               IF i = 0
               THEN Append(program_counts, [ program |-> program, count |-> 1 ])
               ELSE [ program_counts EXCEPT ![i].count = @ + 1 ])

RECURSIVE insert_by_count(_, _)
insert_by_count(x, sorted) ==
    IF sorted = << >> THEN << x >>
    ELSE IF Head(sorted).count > x.count
         THEN << Head(sorted) >> \o insert_by_count(x, Tail(sorted))
         ELSE << x >> \o sorted

\* the programs left in dictionary order
sorted_by_count_unsorted(items) == items

\* sorted(program_counts.items(), key=count, reverse=True): stable
RECURSIVE sorted_by_count(_)
sorted_by_count(items) ==
    IF items = << >> THEN << >>
    ELSE insert_by_count(Head(items), sorted_by_count(Tail(items)))

\* the slice [:5] of the programs shown
TopPrograms == 5

\* the result of a call that found no entry ("No execution data found.")
NoData ==
    [ nodata |-> TRUE, count |-> 0, newest |-> << >>, oldest |-> << >>, top |-> << >> ]

\* what get_log_stats prints when all_entries holds these entries
print_stats(all_entries) ==
    LET sorted == sort_reverse(all_entries)
        sorted_programs == sorted_by_count(count_programs(sorted, << >>))
    IN  [ nodata |-> FALSE,
          count  |-> Len(sorted),
          newest |-> IF sorted # << >>
                     THEN << sorted[1].date, sorted[1].time >> ELSE << >>,
          oldest |-> IF sorted # << >>
                     THEN << sorted[Len(sorted)].date, sorted[Len(sorted)].time >>
                     ELSE << >>,
          top    |-> SubSeq(sorted_programs, 1,
                            IF Len(sorted_programs) < TopPrograms
                            THEN Len(sorted_programs) ELSE TopPrograms) ]

\* get_log_stats without its check for an empty all_entries
get_log_stats_noCheck(fs) ==
    print_stats(stats_files(fs, LEGACY_LOG_FILES,
                            [ all_entries |-> << >>, seen_entries |-> { } ]).all_entries)

\* the statistics get_log_stats prints
get_log_stats(fs) ==
    LET all_entries == stats_files(fs, LEGACY_LOG_FILES,
                         [ all_entries |-> << >>, seen_entries |-> { } ]).all_entries
    IN  IF all_entries = << >> THEN NoData ELSE print_stats(all_entries)

\* ------------------------------------------------------------ log_execution
\* get_caller_info(): the frame two levels up is a program file, or None
BaseName(path) ==
    CASE path = "/x/a.py" -> "a.py"
      [] path = "/y/b.py" -> "b.py"
      [] OTHER -> path

\* get_caller_info without the check for a missing frame
get_caller_info_noSentinel(caller_frame) ==
    << BaseName(caller_frame), caller_frame >>

get_caller_info(caller_frame) ==
    IF caller_frame = "None" THEN << "Unknown", "Unknown" >>
    ELSE << BaseName(caller_frame), caller_frame >>

\* f"{call_number}\t{date_str}\t{time_str}\t{file_name}\t{file_path}\n"
log_entry_text(e) ==
    IntToStr(e.number) \o << "\t" >> \o e.date \o << "\t" >> \o e.time
        \o << "\t" >> \o e.filename \o << "\t" >> \o e.filepath \o << "\n" >>

\* a header without its separator line
HeaderText_noSeparator ==
    << "#", " ", "NeuroGames Project - Program Execution Log", "\n",
       "#", " ", "CallNumber", "\t", "Date", "\t", "Time", "\t", "FileName",
            "\t", "FullPath", "\n" >>

\* the three lines create_log_file_header writes
HeaderText ==
    << "#", " ", "NeuroGames Project - Program Execution Log", "\n",
       "#", " ", "CallNumber", "\t", "Date", "\t", "Time", "\t", "FileName",
            "\t", "FullPath", "\n",
       "#", "=====", "\n" >>

\* ensure_log_directory, then open(LOG_FILE, 'w') and three writes
create_log_file_header(fs) ==
    IF fs[LOG_FILE].st = "nodir"
    THEN [ raised |-> TRUE, fs |-> fs ]
    ELSE [ raised |-> FALSE,
           fs |-> [ fs EXCEPT ![LOG_FILE] = [ st |-> "ok", data |-> HeaderText ] ] ]

IsHeaderLine(line) == startswith(line, "#")

IsDataLine(line) == ~ startswith(line, "#")

\* a rewrite that puts the new entry below the old lines
rewrite_text_append(existing_lines, new_entry) ==
    Concat(SelectSeq(existing_lines, IsHeaderLine))
        \o Concat(SelectSeq(existing_lines, IsDataLine))
        \o new_entry

\* what the rewrite puts into the file
rewrite_text(existing_lines, new_entry) ==
    Concat(SelectSeq(existing_lines, IsHeaderLine))
        \o new_entry
        \o Concat(SelectSeq(existing_lines, IsDataLine))

\* an insert that rewrites the first legacy location instead of LOG_FILE
insert_entry_at_top_legacy(fs, new_entry, wrote) ==
    [ raised |-> FALSE,
      fs |-> [ fs EXCEPT ![LEGACY_LOG_FILES[1]] =
                 [ st |-> "ok",
                   data |-> rewrite_text(readlines(fs[LEGACY_LOG_FILES[1]].data),
                                         new_entry) ] ] ]

\* wrote: how far the writes get, one of write_outcomes(fs)
insert_entry_at_top(fs, new_entry, wrote) ==
    LET made == IF ~ exists(fs, LOG_FILE) THEN create_log_file_header(fs)
                ELSE [ raised |-> FALSE, fs |-> fs ]
        fs1 == made.fs
        existing_lines == readlines(fs1[LOG_FILE].data)
    IN  IF made.raised THEN made
        ELSE IF ~ CanRead(fs1, LOG_FILE) THEN [ raised |-> TRUE, fs |-> fs1 ]
        ELSE IF ~ CanOpenForWrite(fs1, LOG_FILE) THEN [ raised |-> TRUE, fs |-> fs1 ]
        ELSE IF wrote = "all"
        THEN [ raised |-> FALSE,
               fs |-> [ fs1 EXCEPT ![LOG_FILE].data =
                          rewrite_text(existing_lines, new_entry) ] ]
        ELSE [ raised |-> TRUE,
               fs |-> [ fs1 EXCEPT ![LOG_FILE].data =
                          IF wrote = "header"
                          THEN Concat(SelectSeq(existing_lines, IsHeaderLine))
                          ELSE << >> ] ]

\* ------------------------------------------------------------------- inputs
Clock == { << "D2", "T2" >> }

CallerFrames == { "/x/a.py", "None" }

\* lines found in log files before the first call, without their terminator
LinePool ==
    { << "#", "hdr" >>,
      << "5", "\t", "D1", "\t", "T1", "\t", "a.py", "\t", "/x/a.py" >>,
      << "5", "\t", "D1", "\t", "T1", "\t", "a.py" >>,
      << "3", "\t", "D2", "\t", "T2", "\t", "b.py", "\t", "/y/b.py" >>,
      << "abc", "\t", "bad", "\t", "data" >>,
      << "7", "\t", "x" >>,
      << "\t", "9", "\t", "D1", "\t", "T1", "\t", "b.py" >>,
      << >> }

\* the text of a file with these lines, the last one terminated or not
RECURSIVE JoinLines(_, _)
JoinLines(lines, eol) ==
    IF lines = << >> THEN << >>
    ELSE IF Len(lines) = 1 THEN Head(lines) \o (IF eol THEN << "\n" >> ELSE << >>)
    ELSE Head(lines) \o << "\n" >> \o JoinLines(Tail(lines), eol)

\* one irregularity of the initial files at most; those of the second set
\* make a difference to the calls that write only
ReadIrregularities ==
    { [ kind |-> "none", file |-> LOG_FILE ] }
    \cup [ kind : { "unreadable", "noeol" }, file : Files ]
    \cup [ kind : { "empty" }, file : { LOG_FILE } ]

Irregularities ==
    ReadIrregularities
        \cup [ kind : { "readonly", "nodir", "nospace" }, file : { LOG_FILE } ]

InitialFile(lines, irr, f) ==
    IF irr.file # f \/ irr.kind = "none"
    THEN IF lines = << >> THEN NoFile
         ELSE [ st |-> "ok", data |-> JoinLines(lines, TRUE) ]
    ELSE CASE irr.kind = "unreadable" -> [ st |-> "unreadable", data |-> JoinLines(lines, TRUE) ]
           [] irr.kind = "noeol"      -> [ st |-> "ok", data |-> JoinLines(lines, FALSE) ]
           [] irr.kind = "empty"      -> [ st |-> "ok", data |-> << >> ]
           [] irr.kind = "readonly"   -> [ st |-> "readonly", data |-> JoinLines(lines, TRUE) ]
           [] irr.kind = "nospace"    -> [ st |-> "nospace", data |-> JoinLines(lines, TRUE) ]
           [] irr.kind = "nodir"      -> [ st |-> "nodir", data |-> << >> ]

\* does the irregularity make sense for the lines of its file
Applies(irr, lines) ==
    CASE irr.kind \in { "empty", "nodir" } -> lines = << >>
      [] irr.kind = "none" -> TRUE
      [] OTHER -> lines # << >>

\* --------------------------------------------------------------------- log.py
\* LOG_FILE of log.py
log_LOG_FILE == "program_log.txt"

\* the list log.get_next_call_number and log.read_log go through
possible_log_files == << log_LOG_FILE, "sub/program_log.txt", "sub/program_log.txt" >>

\* log.get_caller_info(): the frame two levels up is a program file, or None
log_get_caller_info(caller_frame) ==
    IF caller_frame = "None" THEN << "Unbekannt", "Unbekannt" >>
    ELSE << BaseName(caller_frame), caller_frame >>

\* log.get_next_call_number(): the same loops over possible_log_files
log_get_next_call_number(fs) == number_files(fs, possible_log_files, 0)

\* the three lines create_log_file_with_header writes
log_HeaderText ==
    << "#", " ", "NeuroGames Program Execution Log", "\n",
       "#", " ", "Aufrufnummer", "\t", "Datum", "\t", "Zeit", "\t", "Dateiname",
            "\t", "Dateipfad", "\n",
       "#", "=====", "\n" >>

\* open(LOG_FILE, 'w') and three writes
create_log_file_with_header(fs) ==
    IF fs[log_LOG_FILE].st = "nodir"
    THEN [ raised |-> TRUE, fs |-> fs ]
    ELSE [ raised |-> FALSE,
           fs |-> [ fs EXCEPT ![log_LOG_FILE] = [ st |-> "ok", data |-> log_HeaderText ] ] ]

\* how far the writes of log.insert_entry_at_top can get
log_write_outcomes(fs) ==
    IF fs[log_LOG_FILE].st = "nospace" THEN { "nothing", "header" } ELSE { "all" }

\* the try block of log.log_execution: the header when LOG_FILE is missing,
\* then log.insert_entry_at_top
log_insert_entry_at_top(fs, log_entry, wrote) ==
    LET made == IF ~ exists(fs, log_LOG_FILE) THEN create_log_file_with_header(fs)
                ELSE [ raised |-> FALSE, fs |-> fs ]
        fs1 == made.fs
        existing_lines == readlines(fs1[log_LOG_FILE].data)
    IN  IF made.raised THEN made
        ELSE IF ~ CanRead(fs1, log_LOG_FILE) THEN [ raised |-> TRUE, fs |-> fs1 ]
        ELSE IF ~ CanOpenForWrite(fs1, log_LOG_FILE) THEN [ raised |-> TRUE, fs |-> fs1 ]
        ELSE IF wrote = "all"
        THEN [ raised |-> FALSE,
               fs |-> [ fs1 EXCEPT ![log_LOG_FILE].data =
                          rewrite_text(existing_lines, log_entry) ] ]
        ELSE [ raised |-> TRUE,
               fs |-> [ fs1 EXCEPT ![log_LOG_FILE].data =
                          IF wrote = "header"
                          THEN Concat(SelectSeq(existing_lines, IsHeaderLine))
                          ELSE << >> ] ]

\* the lines log.insert_entry_at_top reads from its LOG_FILE
log_lines_read(old, res) ==
    IF res.raised /\ ~ CanRead(res.fs, log_LOG_FILE) THEN << >>
    ELSE IF exists(old, log_LOG_FILE) THEN readlines(old[log_LOG_FILE].data)
    ELSE readlines(log_HeaderText)

\* the entries log.read_log displays, in display order
log_read_log(fs) ==
    sort_reverse(entry_files(fs, possible_log_files,
                   [ all_entries |-> << >>, seen_entries |-> { } ]).all_entries)

\* a line that log.get_log_stats counts
log_data_line(line) == strip(line) # << >> /\ ~ startswith(line, "#")

\* the programs of the data lines, as log.get_log_stats reads them
RECURSIVE log_programs(_)
log_programs(data_lines) ==
    IF data_lines = << >> THEN << >>
    ELSE LET parts == split(Head(data_lines), "\t")
         IN  (IF Len(parts) >= 4 THEN << [ filename |-> parts[4] ] >> ELSE << >>)
                 \o log_programs(Tail(data_lines))

\* the statistics log.get_log_stats prints: from the lines of LOG_FILE alone;
\* each of its three messages is the result without data
log_get_log_stats(fs) ==
    IF ~ exists(fs, log_LOG_FILE) THEN NoData
    ELSE IF ~ CanRead(fs, log_LOG_FILE) THEN NoData
    ELSE LET data_lines == SelectSeq(readlines(fs[log_LOG_FILE].data), log_data_line)
         IN  IF data_lines = << >> THEN NoData
             ELSE LET newest_parts == split(data_lines[1], "\t")
                      oldest_parts == split(data_lines[Len(data_lines)], "\t")
                      shown == Len(newest_parts) >= 3 /\ Len(oldest_parts) >= 3
                      programs == sorted_by_count(
                                    count_programs(log_programs(data_lines), << >>))
                  IN  [ nodata |-> FALSE,
                        count  |-> Len(data_lines),
                        newest |-> IF shown
                                   THEN << newest_parts[2], strip(newest_parts[3]) >>
                                   ELSE << >>,
                        oldest |-> IF shown
                                   THEN << oldest_parts[2], strip(oldest_parts[3]) >>
                                   ELSE << >>,
                        top    |-> SubSeq(programs, 1,
                                          IF Len(programs) < TopPrograms
                                          THEN Len(programs) ELSE TopPrograms) ]

\* -------------------------------------------------------------------- state
VARIABLES
    fs,        \* the three log files
    lastOp,    \* the operation that ran last
    status,    \* log_execution: "ok", or "error" when it caught an exception
    entry,     \* the entry the last log_execution formatted
    before,    \* the lines of LOG_FILE the last insert_entry_at_top read
    numbered,  \* the value returned, when the last operation is get_next_call_number
    out,       \* the entries displayed, when the last operation is read_log
    again,     \* the last operation repeats the operation before it
    origin,    \* the state of LOG_FILE before the first call
    stats,     \* the statistics printed, when the last operation is get_log_stats
    proc,      \* two concurrent log_execution calls: position and local variables
    context,   \* the caller frame the last log_execution found
    calls,     \* log_execution calls so far
    assigned   \* the call numbers of the successful log_execution calls

vars == << fs, lastOp, status, entry, before, numbered, out, again, origin, stats, proc, context, calls, assigned >>

NotNumbered == [ raised |-> FALSE, value |-> 0 ]

\* no statistics printed
NoStats ==
    [ nodata |-> FALSE, count |-> 0, newest |-> << >>, oldest |-> << >>, top |-> << >> ]

NoEntry == [ number |-> 0, date |-> << >>, time |-> << >>,
             filename |-> << >>, filepath |-> << >> ]

\* the processes that call log_execution at the same time, and their callers
Procs == { "p1", "p2" }

\* both processes run the same program
CallerOf_same(p) == "/x/a.py"

CallerOf(p) == IF p = "p1" THEN "/x/a.py" ELSE "/y/b.py"

\* a process that has not entered log_execution
Idle ==
    [ p \in Procs |->
        [ pc |-> "start", call_number |-> 0, log_entry |-> << >>,
          existing_lines |-> << >> ] ]

\* every variable but fs before the first operation
Fresh ==
    /\ lastOp = "init"
    /\ status = "none"
    /\ entry = NoEntry
    /\ before = << >>
    /\ numbered = NotNumbered
    /\ out = << >>
    /\ again = FALSE
    /\ origin = fs[LOG_FILE].st
    /\ stats = NoStats
    /\ proc = Idle
    /\ context = "none"
    /\ calls = 0
    /\ assigned = << >>

InitWith(n, irregularities) ==
    \E k \in 0..n :
    \E all \in [ 1..k -> LinePool ] :
    \E c1 \in 0..k :
    \E c2 \in c1..k :
    \E irr \in irregularities :
        LET lines == [ f \in Files |->
                         CASE f = "program_log.txt" -> SubSeq(all, 1, c1)
                           [] f = "sub/program_log.txt" -> SubSeq(all, c1 + 1, c2)
                           [] OTHER -> SubSeq(all, c2 + 1, k) ]
        IN  /\ Applies(irr, lines[irr.file])
            /\ fs = [ f \in Files |-> InitialFile(lines[f], irr, f) ]
            /\ Fresh

Init == InitWith(MaxLines, Irregularities)

InitScan == InitWith(MaxScanLines, ReadIrregularities)

\* ------------------------------------------------------------------ actions
\* the entry log_execution formats
new_entry(call_number, now, who) ==
    [ number |-> call_number,
      date |-> << now[1] >>, time |-> << now[2] >>,
      filename |-> << who[1] >>, filepath |-> << who[2] >> ]

\* the lines insert_entry_at_top reads from LOG_FILE (after creating it)
lines_read(old, res) ==
    IF res.raised /\ ~ CanRead(res.fs, LOG_FILE) THEN << >>
    ELSE IF exists(old, LOG_FILE) THEN readlines(old[LOG_FILE].data)
    ELSE readlines(HeaderText)

\* one run of logger.log_execution()
LogExecution ==
    /\ calls < MaxCalls
    /\ \E now \in Clock, caller_frame \in CallerFrames :
       \E next \in { get_next_call_number(fs) } :
       \E e \in { new_entry(next.value, now, get_caller_info(caller_frame)) } :
       \E wrote \in write_outcomes(fs) :
       \E res \in { insert_entry_at_top(fs, log_entry_text(e), wrote) } :
         /\ ~ next.raised
         /\ fs' = res.fs
         /\ status' = IF res.raised THEN "error" ELSE "ok"
         /\ entry' = e
         /\ context' = caller_frame
         /\ before' = lines_read(fs, res)
         /\ assigned' = IF res.raised THEN assigned
                        ELSE Append(assigned, next.value)
    /\ lastOp' = "log_execution"
    /\ numbered' = NotNumbered
    /\ out' = << >>
    /\ again' = FALSE
    /\ calls' = calls + 1
    /\ stats' = NoStats
    /\ UNCHANGED << origin, proc >>

\* read_log whose all_entries list survives from the call before
ReadLog_keepsEntries ==
    /\ out' = out \o read_log(fs)
    /\ lastOp' = "read_log"
    /\ again' = (lastOp = "read_log")
    /\ numbered' = NotNumbered
    /\ stats' = NoStats
    /\ UNCHANGED << fs, status, entry, before, origin, proc, context, calls, assigned >>

\* one run of logger.read_log()
ReadLog ==
    /\ out' = read_log(fs)
    /\ lastOp' = "read_log"
    /\ again' = (lastOp = "read_log")
    /\ numbered' = NotNumbered
    /\ stats' = NoStats
    /\ UNCHANGED << fs, status, entry, before, origin, proc, context, calls, assigned >>

\* one call of logger.get_next_call_number() on its own
Numbering ==
    /\ lastOp # "get_next_call_number"
    /\ numbered' = get_next_call_number(fs)
    /\ lastOp' = "get_next_call_number"
    /\ out' = << >>
    /\ again' = FALSE
    /\ stats' = NoStats
    /\ UNCHANGED << fs, status, entry, before, origin, proc, context, calls, assigned >>

\* one run of logger.get_log_stats()
GetLogStats ==
    /\ lastOp # "get_log_stats"
    /\ stats' = get_log_stats(fs)
    /\ lastOp' = "get_log_stats"
    /\ numbered' = NotNumbered
    /\ out' = << >>
    /\ again' = FALSE
    /\ UNCHANGED << fs, status, entry, before, origin, proc, context, calls, assigned >>

Next == LogExecution \/ ReadLog

Spec == Init /\ [][Next]_vars

NextScan == Numbering \/ ReadLog

SpecScan == InitScan /\ [][NextScan]_vars

\* lines of log files for the statistics: six programs, one of them twice,
\* one entry twice with two paths, one number twice, one line that is no entry
StatsPool ==
    << << "2", "\t", "D1", "\t", "T1", "\t", "a.py", "\t", "/x/a.py" >>,
       << "7", "\t", "D2", "\t", "T1", "\t", "b.py", "\t", "/y/b.py" >>,
       << "4", "\t", "D1", "\t", "T2", "\t", "c.py" >>,
       << "5", "\t", "D2", "\t", "T2", "\t", "a.py", "\t", "/x/a.py" >>,
       << "1", "\t", "D1", "\t", "T1", "\t", "d.py" >>,
       << "6", "\t", "D1", "\t", "T1", "\t", "e.py" >>,
       << "7", "\t", "D2", "\t", "T1", "\t", "f.py" >>,
       << "2", "\t", "D1", "\t", "T1", "\t", "a.py", "\t", "/old/a.py" >>,
       << "abc", "\t", "bad", "\t", "data", "\t", "x" >> >>

\* the lines of StatsPool picked by S, in the order of StatsPool
RECURSIVE Pick(_, _)
Pick(S, i) ==
    IF i > Len(StatsPool) THEN << >>
    ELSE (IF i \in S THEN << StatsPool[i] >> ELSE << >>) \o Pick(S, i + 1)

RECURSIVE Reverse(_)
Reverse(seq) ==
    IF seq = << >> THEN << >> ELSE Reverse(Tail(seq)) \o << Head(seq) >>

\* files holding some lines of StatsPool, in its order or the other way round,
\* the first of them in program_log.txt, which may be unreadable, and the
\* others in LOG_FILE
InitStats ==
    \E S \in SUBSET (1..Len(StatsPool)) :
    \E backwards \in BOOLEAN :
    \E all \in { IF backwards THEN Reverse(Pick(S, 1)) ELSE Pick(S, 1) } :
    \E c \in 0..Len(all) :
    \E blocked \in { FALSE, c > 0 } :
        /\ fs = [ f \in Files |->
                   LET lines == CASE f = "program_log.txt" -> SubSeq(all, 1, c)
                                  [] f = LOG_FILE -> SubSeq(all, c + 1, Len(all))
                                  [] OTHER -> << >>
                   IN  IF lines = << >> THEN NoFile
                       ELSE [ st |-> IF blocked /\ f = "program_log.txt"
                                     THEN "unreadable" ELSE "ok",
                              data |-> JoinLines(lines, TRUE) ] ]
        /\ Fresh

NextStats == GetLogStats \/ ReadLog

SpecStats == InitStats /\ [][NextStats]_vars

\* --------------------------------------------- two concurrent log_execution
\* what no step of a concurrent call changes
Sequential == << lastOp, status, entry, before, numbered, out, again, origin,
                 stats, context, calls, assigned >>

\* steps 1 to 4 of log_execution: the number, the time, the caller, the entry
GetNumber(p) ==
    /\ proc[p].pc = "start"
    /\ \E now \in Clock :
       \E next \in { get_next_call_number(fs) } :
         proc' = [ proc EXCEPT ![p].pc = "numbered",
                               ![p].call_number = next.value,
                               ![p].log_entry =
                                   log_entry_text(new_entry(next.value, now,
                                                    get_caller_info(CallerOf(p)))) ]
    /\ UNCHANGED << fs, Sequential >>

\* insert_entry_at_top: if not os.path.exists(LOG_FILE)
CheckExists(p) ==
    /\ proc[p].pc = "numbered"
    /\ proc' = [ proc EXCEPT ![p].pc = IF exists(fs, LOG_FILE) THEN "open" ELSE "create" ]
    /\ UNCHANGED << fs, Sequential >>

\* insert_entry_at_top: create_log_file_header()
CreateHeader(p) ==
    /\ proc[p].pc = "create"
    /\ fs' = create_log_file_header(fs).fs
    /\ proc' = [ proc EXCEPT ![p].pc = "open" ]
    /\ UNCHANGED Sequential

\* insert_entry_at_top: existing_lines = f.readlines()
ReadExisting(p) ==
    /\ proc[p].pc = "open"
    /\ proc' = [ proc EXCEPT ![p].pc = "read",
                             ![p].existing_lines = readlines(fs[LOG_FILE].data) ]
    /\ UNCHANGED << fs, Sequential >>

\* a rewrite that reads the file again at the time it writes
rewrite_file_reread(files, existing_lines, log_entry) ==
    [ files EXCEPT ![LOG_FILE].data =
        rewrite_text(readlines(files[LOG_FILE].data), log_entry) ]

\* insert_entry_at_top: open(LOG_FILE, 'w') and the writes, from the lines
\* read before
rewrite_file(files, existing_lines, log_entry) ==
    [ files EXCEPT ![LOG_FILE].data = rewrite_text(existing_lines, log_entry) ]

\* insert_entry_at_top: the rewrite, and the return of log_execution
Rewrite(p) ==
    /\ proc[p].pc = "read"
    /\ fs' = rewrite_file(fs, proc[p].existing_lines, proc[p].log_entry)
    /\ proc' = [ proc EXCEPT ![p].pc = "done" ]
    /\ UNCHANGED Sequential

\* the primary file before the calls: missing, or the header and some entries
OldEntry(n) ==
    IntToStr(n) \o << "\t", "D1", "\t", "T1", "\t", "a.py", "\t", "/x/a.py", "\n" >>

RECURSIVE OldEntries(_)
OldEntries(n) == IF n = 0 THEN << >> ELSE OldEntry(n) \o OldEntries(n - 1)

InitConc ==
    \E primary \in { NoFile }
                     \cup { [ st |-> "ok", data |-> HeaderText \o OldEntries(n) ] :
                             n \in 0..MaxOld } :
    \E old \in { NoFile, [ st |-> "ok", data |-> OldEntry(5) ] } :
        /\ fs = [ f \in Files |->
                   CASE f = LOG_FILE -> primary
                     [] f = "program_log.txt" -> old
                     [] OTHER -> NoFile ]
        /\ Fresh

NextConc ==
    \E p \in Procs :
        \/ GetNumber(p)
        \/ CheckExists(p)
        \/ CreateHeader(p)
        \/ ReadExisting(p)
        \/ Rewrite(p)

SpecConc == InitConc /\ [][NextConc]_vars

\* ------------------------------------------------------------ calls of log.py
\* one run of log.log_execution()
LogLogExecution ==
    /\ calls < MaxCalls
    /\ \E now \in Clock, caller_frame \in CallerFrames :
       \E next \in { log_get_next_call_number(fs) } :
       \E e \in { new_entry(next.value, now, log_get_caller_info(caller_frame)) } :
       \E wrote \in log_write_outcomes(fs) :
       \E res \in { log_insert_entry_at_top(fs, log_entry_text(e), wrote) } :
         /\ ~ next.raised
         /\ fs' = res.fs
         /\ status' = IF res.raised THEN "error" ELSE "ok"
         /\ entry' = e
         /\ context' = caller_frame
         /\ before' = log_lines_read(fs, res)
         /\ assigned' = IF res.raised THEN assigned
                        ELSE Append(assigned, next.value)
    /\ lastOp' = "log.log_execution"
    /\ numbered' = NotNumbered
    /\ out' = << >>
    /\ again' = FALSE
    /\ calls' = calls + 1
    /\ stats' = NoStats
    /\ UNCHANGED << origin, proc >>

\* one run of log.read_log()
LogReadLog ==
    /\ lastOp # "log.read_log"
    /\ out' = log_read_log(fs)
    /\ lastOp' = "log.read_log"
    /\ again' = FALSE
    /\ numbered' = NotNumbered
    /\ stats' = NoStats
    /\ UNCHANGED << fs, status, entry, before, origin, proc, context, calls, assigned >>

\* one run of log.get_log_stats()
LogGetLogStats ==
    /\ lastOp # "log.get_log_stats"
    /\ stats' = log_get_log_stats(fs)
    /\ lastOp' = "log.get_log_stats"
    /\ numbered' = NotNumbered
    /\ out' = << >>
    /\ again' = FALSE
    /\ UNCHANGED << fs, status, entry, before, origin, proc, context, calls, assigned >>

\* log files without irregularities, as both recorders find them in one
\* working directory
InitLog == InitWith(MaxLines, { [ kind |-> "none", file |-> LOG_FILE ] })

NextLog == LogExecution \/ LogLogExecution \/ LogReadLog \/ LogGetLogStats

SpecLog == InitLog /\ [][NextLog]_vars

\* ------------------------------------------------------- one run of main.py
\* main() has logged its start and has not left the menu loop
InMenu == lastOp \notin { "init", "exit_program" }

\* main(): log_execution() before the menu loop
MainStart == lastOp = "init" /\ LogExecution

\* menu option 1: run_pdf_generator calls pdf_generator.main, which calls
\* log_execution and then writes PDF files only
RunPdfGenerator == InMenu /\ LogExecution

\* menu option 2: run_log_viewer calls read_log
RunLogViewer == InMenu /\ ReadLog

\* menu option 3: run_statistics calls get_log_stats
RunStatistics == InMenu /\ GetLogStats

\* menu option 4: show_about prints only
ShowAbout ==
    /\ InMenu
    /\ lastOp' = "show_about"
    /\ numbered' = NotNumbered
    /\ out' = << >>
    /\ again' = FALSE
    /\ stats' = NoStats
    /\ UNCHANGED << fs, status, entry, before, origin, proc, context, calls, assigned >>

\* menu option 0: exit_program calls sys.exit(0)
ExitProgram ==
    /\ InMenu
    /\ lastOp' = "exit_program"
    /\ numbered' = NotNumbered
    /\ out' = << >>
    /\ again' = FALSE
    /\ stats' = NoStats
    /\ UNCHANGED << fs, status, entry, before, origin, proc, context, calls, assigned >>

\* the log files main.py finds when it starts
InitMain == InitConc

NextMain ==
    \/ MainStart
    \/ RunPdfGenerator
    \/ RunLogViewer
    \/ RunStatistics
    \/ ShowAbout
    \/ ExitProgram

SpecMain == InitMain /\ [][NextMain]_vars

\* ---------------------------------------------------- terms of the claims
MaxOf(S) == CHOOSE m \in S : \A x \in S : x <= m

Readable == { f \in Files : CanRead(fs, f) }

LinesOf(f) == readlines(fs[f].data)

\* the lines of all locations that can be read
LineSet(lines) == { lines[i] : i \in 1..Len(lines) }

AllLines == UNION { LineSet(LinesOf(f)) : f \in Readable }

\* blank lines and comment lines
Skippable(line) == strip(line) = << >> \/ startswith(line, "#")

\* the text of a line before its first tab
RawFirst(line) ==
    LET i == IndexOf(line, "\t")
    IN  IF i = 0 THEN line ELSE SubSeq(line, 1, i - 1)

\* a line that carries a call number for the numbering
Numbered(line) == ~ Skippable(line) /\ IntOk(RawFirst(line))

NumbersFound == { IntVal(RawFirst(line)) : line \in { l \in AllLines : Numbered(l) } }

\* the tab-separated fields of a line without its surrounding whitespace
Fields(line) == split(strip(line), "\t")

\* a line that is an entry: a number, a date, a time and a source name
Valid(line) ==
    LET F == Fields(line)
    IN  ~ Skippable(line) /\ Len(F) >= 4 /\ IntOk(F[1])

LineTuple(line) ==
    LET F == Fields(line)
    IN  << IntVal(F[1]), F[2], F[3], F[4] >>

LineEntry(line) ==
    LET F == Fields(line)
    IN  [ number |-> IntVal(F[1]), date |-> F[2], time |-> F[3], filename |-> F[4],
          filepath |-> IF Len(F) >= 5 THEN F[5] ELSE << >> ]

ValidLines == { l \in AllLines : Valid(l) }

ValidTuples == { LineTuple(l) : l \in ValidLines }

\* the identity of a displayed entry
Identity(e) == << e.number, e.date, e.time, e.filename >>

\* the files without the lines that satisfy Drop
Without(Drop(_)) ==
    LET Keep(l) == ~ Drop(l)
    IN  [ f \in Files |->
            [ st |-> fs[f].st,
              data |-> Concat(SelectSeq(readlines(fs[f].data), Keep)) ] ]

\* -------------------------------------------------------------------- claims
\* C1: in a sequence of successful log_execution calls run one after another,
\* each call number is exactly 1 greater than the number of the call before.
C1_NumbersIncreaseByOne ==
    \A i \in 1..(Len(assigned) - 1) : assigned[i + 1] = assigned[i] + 1

\* C2: get_next_call_number returns 1 + the maximum call number found over all
\* locations, legacy ones included, and 1 when no location yields a number.
C2_NextIsMaxPlusOne ==
    lastOp = "get_next_call_number" =>
        numbered = [ raised |-> FALSE, value |-> 1 + MaxOf({ 0 } \cup NumbersFound) ]

\* C2 witness: the primary file is empty, a legacy file holds 5, the result is 6
C2_Witness ==
    /\ lastOp = "get_next_call_number"
    /\ fs[LOG_FILE].data = << >>
    /\ NumbersFound = { 5 }
    /\ numbered.value = 6

\* C3: after a log_execution that commits entry e, the first element of the
\* merged view has e's number and e's source name.
C3_NewEntryHeadsView ==
    (lastOp = "log_execution" /\ status = "ok") =>
        /\ read_log(fs) # << >>
        /\ read_log(fs)[1].number = entry.number
        /\ read_log(fs)[1].filename = entry.filename

\* C4: insert_entry_at_top leaves the primary file with the old '#' lines in
\* their order, then the new entry line, then the other old lines in their order.
C4_HeaderEntryData ==
    (lastOp = "log_execution" /\ status = "ok") =>
        LinesOf(LOG_FILE) = SelectSeq(before, IsHeaderLine)
                              \o << log_entry_text(entry) >>
                              \o SelectSeq(before, IsDataLine)

\* C5: the merged view holds exactly one entry for each tuple (number, date,
\* time, source name), also when two locations hold a line with that tuple.
C5_OneEntryPerTuple ==
    lastOp = "read_log" =>
        \A t \in ValidTuples :
            Cardinality({ i \in 1..Len(out) : Identity(out[i]) = t }) = 1

\* C5 witness: two locations hold a line with the same tuple, one entry shown
C5_Witness ==
    /\ lastOp = "read_log"
    /\ Len(out) = 1
    /\ \E f, g \in Readable :
         /\ f # g
         /\ \E i \in 1..Len(LinesOf(f)), j \in 1..Len(LinesOf(g)) :
              /\ Valid(LinesOf(f)[i]) /\ Valid(LinesOf(g)[j])
              /\ LineTuple(LinesOf(f)[i]) = Identity(out[1])
              /\ LineTuple(LinesOf(g)[j]) = Identity(out[1])

\* C6: the merged view is in descending order of call number.
C6_ViewDescending ==
    lastOp = "read_log" =>
        \A i \in 1..(Len(out) - 1) : out[i].number >= out[i + 1].number

\* C6 witness: a file lists 3 above 5, the view shows 5 above 3
C6_Witness ==
    /\ lastOp = "read_log"
    /\ Len(out) = 2
    /\ out[1].number = 5 /\ out[2].number = 3
    /\ \E f \in Readable :
         /\ Len(LinesOf(f)) = 2
         /\ Valid(LinesOf(f)[1]) /\ LineTuple(LinesOf(f)[1])[1] = 3
         /\ Valid(LinesOf(f)[2]) /\ LineTuple(LinesOf(f)[2])[1] = 5

\* C7: with malformed lines next to valid lines, the merged view contains
\* exactly the valid lines of all locations (read_log has no way to raise).
C7_ViewIsValidLines ==
    lastOp = "read_log" =>
        LET shown == { out[i] : i \in 1..Len(out) }
            lines == ValidLines
        IN  /\ shown \subseteq { LineEntry(l) : l \in lines }
            /\ { LineTuple(l) : l \in lines } = { Identity(e) : e \in shown }

\* C7 witness: a legacy file holds "abc\tbad\tdata" above a valid line
C7_Witness ==
    /\ lastOp = "read_log"
    /\ Len(out) = 1
    /\ \E f \in Readable \ { LOG_FILE } :
         /\ Len(LinesOf(f)) = 2
         /\ strip(LinesOf(f)[1]) = << "abc", "\t", "bad", "\t", "data" >>
         /\ Valid(LinesOf(f)[2])
         /\ out[1] = LineEntry(LinesOf(f)[2])

\* a malformed line in the words of C8: non-numeric first field or too few fields
Malformed(line) ==
    LET F == Fields(line)
    IN  ~ Skippable(line) /\ (~ IntOk(F[1]) \/ Len(F) < 4)

\* a line the numbering cannot use: its text before the first tab is no integer
NoNumber(line) == ~ Skippable(line) /\ ~ IntOk(RawFirst(line))

\* a line read_log cannot use
NoEntryLine(line) == ~ Skippable(line) /\ ~ Valid(line)

\* C8 as stated: a malformed line (non-numeric first field or wrong field count)
\* contributes nothing to either scan and stops neither: both results are the
\* results for the files without the malformed lines.
C8_MalformedSkippedByBoth ==
    /\ lastOp = "get_next_call_number" =>
           numbered = get_next_call_number(Without(Malformed))
    /\ lastOp = "read_log" => out = read_log(Without(Malformed))

\* C8 amended: a line whose text before the first tab is no integer contributes
\* nothing to get_next_call_number, a line that is no entry (fewer than 4 fields
\* or a non-numeric first field once stripped) contributes nothing to the merged
\* view, neither stops its scan; a short line with an integer first field still
\* counts in the numbering.
C8_MalformedSkippedPerScan ==
    /\ lastOp = "get_next_call_number" =>
           /\ numbered = get_next_call_number(Without(NoNumber))
           /\ \A l \in AllLines : Numbered(l) => numbered.value > IntVal(RawFirst(l))
    /\ lastOp = "read_log" => out = read_log(Without(NoEntryLine))

\* C8 witness: a file holds a line without number above a numbered line, and
\* the number of the second line is counted
C8_Witness ==
    /\ lastOp = "get_next_call_number"
    /\ \E f \in Readable :
         /\ Len(LinesOf(f)) = 2
         /\ NoNumber(LinesOf(f)[1])
         /\ Numbered(LinesOf(f)[2])
         /\ numbered.value = IntVal(RawFirst(LinesOf(f)[2])) + 1

\* C9: two read_log calls in a row, no other call in between, show the same
\* entries.
C9_ReadTwiceSame ==
    [][(lastOp = "read_log" /\ lastOp' = "read_log") => out' = out]_vars

\* C9 witness: the second of two read_log calls in a row, after a recorded call
C9_Witness ==
    /\ again
    /\ lastOp = "read_log"
    /\ status = "ok"
    /\ Len(out) >= 1

\* the files with every location that cannot be read taken away
OnlyReadable == [ f \in Files |-> IF CanRead(fs, f) THEN fs[f] ELSE NoFile ]

\* C10: get_next_call_number never fails: a location that is missing or cannot
\* be read is skipped and the result is that of the remaining locations.
C10_NumberingNeverFails ==
    lastOp = "get_next_call_number" =>
        /\ ~ numbered.raised
        /\ numbered.value = get_next_call_number(OnlyReadable).value

\* C10 witness: one legacy file cannot be read, another location holds a number
C10_Witness ==
    /\ lastOp = "get_next_call_number"
    /\ \E f \in Files \ { LOG_FILE } : fs[f].st = "unreadable"
    /\ numbered.value > 1

\* ---------------------------------------------------------------- C11 .. C14
\* the old locations the program only reads
OldLocations == { "program_log.txt", "sub/program_log.txt" }

\* C11: a log_execution that finds no primary file creates it with exactly
\* three '#' lines (banner, column names, separator); after the call the file
\* holds these three lines followed by the one new entry line.
C11_MissingPrimaryGetsHeader ==
    (lastOp = "log_execution" /\ status = "ok" /\ calls = 1 /\ origin = "missing") =>
        LET L == LinesOf(LOG_FILE)
        IN  /\ Len(L) = 4
            /\ \A i \in 1..3 : startswith(L[i], "#")
            /\ Cardinality({ L[1], L[2], L[3] }) = 3
            /\ Len(split(L[1], "\t")) = 1
            /\ Len(split(L[2], "\t")) = 5
            /\ strip(L[3]) = << "#", "=====" >>
            /\ L[4] = log_entry_text(entry)

\* C11 witness: the first call found no primary file and recorded entry 1 or more
C11_Witness ==
    /\ lastOp = "log_execution"
    /\ status = "ok"
    /\ calls = 1
    /\ origin = "missing"
    /\ Len(LinesOf(LOG_FILE)) = 4
    /\ entry.number >= 1

\* C12: no step writes to an old location: program_log.txt and
\* sub/program_log.txt stay as they are, only the primary file changes.
C12_OldLocationsUntouched ==
    [][\A f \in OldLocations : fs'[f] = fs[f]]_vars

\* C12 witness: a call was recorded into the primary file while an old
\* location held lines
C12_Witness ==
    /\ lastOp = "log_execution"
    /\ status = "ok"
    /\ \E f \in OldLocations : fs[f].data # << >>
    /\ log_entry_text(entry) \in LineSet(LinesOf(LOG_FILE))

\* the entries a location holds
EntriesIn(files, f) ==
    { LineEntry(l) : l \in { x \in LineSet(readlines(files[f].data)) : Valid(x) } }

\* C13: no step changes or deletes an entry: every entry a location holds
\* before a step is held by that location after it, with the same fields.
C13_EntriesNeverLost ==
    [][\A f \in Files : EntriesIn(fs, f) \subseteq EntriesIn(fs', f)]_vars

\* C14: a log_execution that fails to create, read or rewrite the primary file
\* returns normally, and all it costs is this run's entry: the files are as
\* they were before the call.
C14_FailedRecordOnlyLosesEntry ==
    [][(lastOp' = "log_execution" /\ calls' = calls + 1 /\ status' # "ok") =>
          (status' = "error" /\ fs' = fs)]_vars

\* ------------------------------------------------------------------------ C15
\* both calls have returned, and each read the file before the other rewrote it
BothReadFirst ==
    /\ \A p \in Procs : proc[p].pc = "done"
    /\ \A p \in Procs : \A q \in Procs \ { p } :
         readlines(proc[q].log_entry)[1] \notin LineSet(proc[p].existing_lines)

\* the processes whose entry the primary file holds
Kept == { p \in Procs : readlines(proc[p].log_entry)[1] \in LineSet(LinesOf(LOG_FILE)) }

\* C15: two concurrent log_execution calls that both read the primary file
\* before the other rewrote it have computed the same number, and the second
\* rewrite has overwritten the first: one of the two entries is in the file.
C15_LostUpdate ==
    BothReadFirst =>
        /\ proc["p1"].call_number = proc["p2"].call_number
        /\ Cardinality(Kept) = 1

\* C15 witness: both calls got number 2 on top of entry 1, p2's rewrite came
\* last and the file holds p2's entry and not p1's
C15_Witness ==
    /\ BothReadFirst
    /\ proc["p1"].call_number = 2
    /\ proc["p2"].call_number = 2
    /\ Kept = { "p2" }
    /\ Len(LinesOf(LOG_FILE)) = 5

\* ---------------------------------------------------------------- C16 .. C19
\* C16: get_log_stats reports on the merged view of read_log: its count is the
\* number of entries read_log shows, its newest entry is the first and its
\* oldest entry the last of that descending view.
C16_StatsOnMergedView ==
    lastOp = "get_log_stats" =>
        LET view == read_log(fs)
        IN  /\ stats.count = Len(view)
            /\ view # << >> =>
                  /\ stats.newest = << view[1].date, view[1].time >>
                  /\ stats.oldest = << view[Len(view)].date, view[Len(view)].time >>

\* C16 witness: statistics over two files that hold the same entry twice
C16_Witness ==
    /\ lastOp = "get_log_stats"
    /\ stats.count >= 2
    /\ stats.newest # stats.oldest
    /\ Cardinality(ValidLines) > Cardinality(ValidTuples)
    /\ \A f \in { "program_log.txt", LOG_FILE } : fs[f].st = "ok"

\* the source names of a view
NamesOf(view) == { view[i].filename : i \in 1..Len(view) }

\* the number of entries of a view with this source name
CountOf(view, name) ==
    Cardinality({ i \in 1..Len(view) : view[i].filename = name })

RECURSIVE ScanLines(_)
ScanLines(files) ==
    IF files = << >> THEN << >>
    ELSE (IF CanRead(fs, Head(files)) THEN LinesOf(Head(files)) ELSE << >>)
            \o ScanLines(Tail(files))

MinOf(S) == CHOOSE m \in S : \A x \in S : m <= x

\* where the merge scan meets a source name first
FirstScanned(L, name) ==
    MinOf({ i \in 1..Len(L) : Valid(L[i]) /\ LineTuple(L[i])[4] = name })

\* where a view shows a source name first
FirstShown(view, name) ==
    MinOf({ i \in 1..Len(view) : view[i].filename = name })

\* C18, as stated: among the top sources, names with equal counts stand in
\* the order in which the merge scan met them first (location order, then
\* line order).
C18_TiesInScanOrder ==
    lastOp = "get_log_stats" =>
        LET top == stats.top
            L == ScanLines(LEGACY_LOG_FILES)
        IN  \A i \in 1..Len(top) : \A j \in (i + 1)..Len(top) :
                top[i].count = top[j].count =>
                    FirstScanned(L, top[i].program) < FirstScanned(L, top[j].program)

\* C18, amended: among the top sources, names with equal counts stand in the
\* order in which the merged view, sorted by descending number, shows them
\* first: the name with the larger newest number comes first.
C18_TiesInViewOrder ==
    lastOp = "get_log_stats" =>
        LET top == stats.top
            view == read_log(fs)
        IN  \A i \in 1..Len(top) : \A j \in (i + 1)..Len(top) :
                top[i].count = top[j].count =>
                    FirstShown(view, top[i].program) < FirstShown(view, top[j].program)

\* C18 witness: two listed names with equal counts, the first of them met
\* later by the merge scan
C18_Witness ==
    /\ lastOp = "get_log_stats"
    /\ LET L == ScanLines(LEGACY_LOG_FILES)
       IN  \E i \in 1..Len(stats.top) : \E j \in (i + 1)..Len(stats.top) :
             /\ stats.top[i].count = stats.top[j].count
             /\ FirstScanned(L, stats.top[i].program) > FirstScanned(L, stats.top[j].program)

NumberOf(line) == IntVal(RawFirst(line))

C21_OneRecordPerRun ==
    lastOp # "init" => calls = 1

\* ---------------------------------------------------------------- C22 .. C23
\* the last operation is a record call of either module that found no caller
NoCallerFound ==
    /\ lastOp \in { "log_execution", "log.log_execution" }
    /\ context = "None"

\* the file the last record call writes
PrimaryOfLast == IF lastOp = "log.log_execution" THEN "program_log.txt"
                 ELSE "logs/program_log.txt"

\* C22, as stated: a record call that cannot determine its caller commits an
\* entry whose source name and path are both "Unknown".
C22_UnknownSentinel ==
    NoCallerFound =>
        /\ entry.filename = << "Unknown" >>
        /\ entry.filepath = << "Unknown" >>
        /\ status = "ok" => log_entry_text(entry) \in LineSet(LinesOf(PrimaryOfLast))

\* C22, amended: a record call that cannot determine its caller commits an
\* entry whose source name and path are both the sentinel of its module:
\* "Unknown" in logger.py, "Unbekannt" in log.py.
C22_SentinelPerModule ==
    NoCallerFound =>
        LET sentinel == IF lastOp = "log.log_execution"
                        THEN << "Unbekannt" >> ELSE << "Unknown" >>
        IN  /\ entry.filename = sentinel
            /\ entry.filepath = sentinel
            /\ status = "ok" => log_entry_text(entry) \in LineSet(LinesOf(PrimaryOfLast))

\* C22 witness: logger.log_execution found no caller and stored an entry of
\* "Unknown" on top of an entry log.log_execution stored for "Unbekannt"
C22_Witness ==
    /\ lastOp = "log_execution"
    /\ context = "None"
    /\ status = "ok"
    /\ entry.filename = << "Unknown" >>
    /\ log_entry_text(entry) \in LineSet(LinesOf("logs/program_log.txt"))
    /\ \E l \in LineSet(LinesOf("program_log.txt")) :
         Valid(l) /\ LineEntry(l).filename = << "Unbekannt" >>
                  /\ LineEntry(l).filepath = << "Unbekannt" >>

\* C23: the count log.get_log_stats reports is the number of entries
\* log.read_log yields from the same files.
C23_LogStatsOnMergedView ==
    lastOp = "log.get_log_stats" => stats.count = Len(log_read_log(fs))

\* ------------------------------------------------------------------------ C25
\* the numbers of the entries a set of files holds
NumbersStored(files) ==
    UNION { { LineTuple(l)[1] : l \in { x \in LineSet(readlines(files[f].data)) : Valid(x) } } :
            f \in Files }

\* C25: whatever the order of calls of log.log_execution and
\* logger.log_execution in one directory, an entry that is stored gets a
\* number that no log file holds yet.
C25_NoNumberTwice ==
    [][(calls' = calls + 1 /\ status' = "ok") =>
          entry'.number \notin NumbersStored(fs)]_vars

\* ---------------------------------------------------------------- C24 .. C30
\* C24: the value get_next_call_number returns is greater than the number of
\* every entry read_log returns from the same files.
C24_NextAboveView ==
    lastOp = "get_next_call_number" =>
        LET view == read_log(fs)
        IN  \A i \in 1..Len(view) : numbered.value > view[i].number

\* C26: the merged view has as many entries as there are distinct tuples
\* (number, date, time, source name) among the valid lines of all locations:
\* lines that share a number and differ in the source name are all shown,
\* lines that differ in the path only are shown once.
C26_ViewCountsTuples ==
    lastOp = "read_log" =>
        /\ Len(out) = Cardinality(ValidTuples)
        /\ \A l \in ValidLines : \E i \in 1..Len(out) : Identity(out[i]) = LineTuple(l)

\* C26 witness: the view shows two entries numbered 7 and one entry for the
\* two lines of a.py numbered 2 that differ in their path
C26_Witness ==
    /\ lastOp = "read_log"
    /\ \E i, j \in 1..Len(out) :
         /\ out[i].number = 7 /\ out[j].number = 7
         /\ out[i].filename # out[j].filename
    /\ \E l, m \in ValidLines :
         /\ l # m
         /\ LineTuple(l) = LineTuple(m)
         /\ LineEntry(l).filepath # LineEntry(m).filepath
    /\ Cardinality({ i \in 1..Len(out) : out[i].number = 2 }) = 1

\* the path of the first valid line with this tuple in scan order
FirstPath(L, t) ==
    LineEntry(L[MinOf({ i \in 1..Len(L) : Valid(L[i]) /\ LineTuple(L[i]) = t })]).filepath

\* C27: of the lines with the same tuple, the merged view shows the path of
\* the line met first in scan order: program_log.txt, sub/program_log.txt,
\* then logs/program_log.txt, each from top to bottom.
C27_FirstCopyWins ==
    lastOp = "read_log" =>
        LET L == ScanLines(<< "program_log.txt", "sub/program_log.txt",
                              "logs/program_log.txt" >>)
        IN  \A i \in 1..Len(out) : out[i].filepath = FirstPath(L, Identity(out[i]))

\* C27 witness: program_log.txt and logs/program_log.txt hold the same tuple
\* with two paths, the view shows the path of program_log.txt
C27_Witness ==
    /\ lastOp = "read_log"
    /\ \E l \in LineSet(LinesOf("program_log.txt")) :
       \E m \in LineSet(LinesOf("logs/program_log.txt")) :
         /\ Valid(l) /\ Valid(m)
         /\ fs["program_log.txt"].st = "ok"
         /\ LineTuple(l) = LineTuple(m)
         /\ LineEntry(l).filepath = << "/old/a.py" >>
         /\ LineEntry(m).filepath = << "/x/a.py" >>
         /\ \E i \in 1..Len(out) : out[i] = LineEntry(l)

\* C28: a log_execution that fails leaves every data line of the primary file
\* where it was.
C28_FailedRecordKeepsEntries ==
    [][(lastOp' = "log_execution" /\ calls' = calls + 1 /\ status' = "error") =>
          \A l \in LineSet(readlines(fs[LOG_FILE].data)) :
              (IsDataLine(l) /\ Valid(l)) =>
                  l \in LineSet(readlines(fs'[LOG_FILE].data))]_vars

\* the text of the entry each process wrote
EntryLine(p) == readlines(proc[p].log_entry)[1]

\* both calls have returned with the same number, and one of them read the
\* file after the other had rewritten it
SameNumberInTurn ==
    /\ \A p \in Procs : proc[p].pc = "done"
    /\ proc["p1"].call_number = proc["p2"].call_number
    /\ \E p \in Procs : \E q \in Procs \ { p } :
         EntryLine(p) \in LineSet(proc[q].existing_lines)

\* C29: two concurrent log_execution calls that compute their number before
\* either rewrites and then read and rewrite one after the other leave two
\* distinct entries with the same number in the primary file.
C29_DuplicateNumber ==
    SameNumberInTurn =>
        /\ EntryLine("p1") # EntryLine("p2")
        /\ \A p \in Procs : EntryLine(p) \in LineSet(LinesOf(LOG_FILE))
        /\ \E l, m \in { x \in LineSet(LinesOf(LOG_FILE)) : Valid(x) } :
             l # m /\ LineTuple(l)[1] = LineTuple(m)[1]

\* C29 witness: both calls got number 2 on top of entry 1, and the file holds
\* the header, both entries numbered 2 and entry 1
C29_Witness ==
    /\ SameNumberInTurn
    /\ proc["p1"].call_number = 2
    /\ Cardinality({ l \in LineSet(LinesOf(LOG_FILE)) :
                       Valid(l) /\ LineTuple(l)[1] = 2 }) = 2
    /\ Len(LinesOf(LOG_FILE)) = 6

\* C30: a log_execution on a primary file whose last line is a '#' line
\* without a newline stores the new entry as a line of its own: read_log
\* returns the entry and get_next_call_number counts it.
C30_EntryAfterOpenComment ==
    (/\ lastOp = "log_execution"
     /\ status = "ok"
     /\ before # << >>
     /\ startswith(before[Len(before)], "#")
     /\ before[Len(before)][Len(before[Len(before)])] # "\n") =>
        /\ log_entry_text(entry) \in LineSet(LinesOf(LOG_FILE))
        /\ \E i \in 1..Len(read_log(fs)) : read_log(fs)[i].number = entry.number
        /\ get_next_call_number(fs).value > entry.number

====
